---- MODULE Spec2Model ----
(***************************************************************************)
(* The notes endpoints of SPS-Backend (src/src/endpoints/notes.rs): the    *)
(* rows of tblNotes, the files under the static file directory, and the    *)
(* request handlers fetch_notes, add_note, update_note_content,            *)
(* update_note_title and remove_note.  Every .await of a handler is one    *)
(* step, so handlers of different requests interleave between awaits.      *)
(***************************************************************************)
EXTENDS Integers, FiniteSets, Sequences, TLC

\* ------------------------------------------------------------ bounds
NumReqs == 2      \* request handlers that can be in flight together
MaxFiles == 2     \* file names Uuid::new_v4 can hand out in one run
MaxFaults == 1    \* database / disk failures the environment injects
ConcFiles == 1    \* file names handed out while requests run concurrently

Reqs == 1..NumReqs
FileNames == 1..MaxFiles
NoteIds == 1..MaxFiles
AccountIds == {1, 2}
Titles == {"T", "T2"}
Contents == {"C", "C2"}
Dirs == {"static", "files"}
NoDir == "unset"
NoFile == "absent"
NoNote == [note_id |-> 0]
NoName == 0

\* ------------------------------------------------------------ state
VARIABLES
    static_file_directory,  \* SETTINGS["static_file_directory"], or NoDir
    fs,                     \* the file system: path -> content or NoFile
    tblNotes,               \* rows of tblNotes
    auto_increment,         \* next generated note_id
    issued,                 \* file names Uuid::new_v4 has returned
    pc, op, arg, loc,       \* per request: position, handler, arguments, locals
    result,                 \* per request: the ApiResult it returned
    outcome,                \* per request: injected failure kind, last step, return order
    nfaults,                \* injected failures so far
    deleted,                \* note ids for which remove_note returned Ok
    created                 \* note_id -> url given by add_note's INSERT

vars == <<static_file_directory, fs, tblNotes, auto_increment, issued, pc, op,
          arg, loc, result, outcome, nfaults, deleted, created>>

\* The account rows: the handlers only read tblAccount.
tblAccount == {1}

Paths == Dirs \X FileNames

\* ------------------------------------------------------------ helpers
\* format!("{}/{}.md", &static_dir, &file_name)
NoteFilePath(static_dir, file_name) == <<static_dir, file_name>>

\* format!("static/{}.md", &file_name)
NoteFileUrl(file_name) == [prefix |-> "static", file |-> file_name]

\* format!("./{}", &db_note.url): the url read as a path under the working directory
FilePath(url) == <<url.prefix, url.file>>

\* impl From<&db::Note> for note_files::NoteFile
NoteFile(note) == [note_id |-> note.note_id, title |-> note.title, url |-> note.url]

\* SELECT * FROM tblNotes WHERE note_id = ?
SelectNote(tbl, note_id) == {n \in tbl : n.note_id = note_id}

\* SELECT * FROM tblNotes WHERE account_id = ?
SelectNotes(tbl, account_id) == {n \in tbl : n.account_id = account_id}

\* the Json body fetch_notes builds from the rows
ListNotes(tbl, account_id) == {NoteFile(n) : n \in SelectNotes(tbl, account_id)}

\* SELECT account_id FROM tblAccount WHERE account_id = ?
AccountExists(account_id) == account_id \in tblAccount

\* Mutant: the INSERT binds no title.
InsertNote_NoTitle(tbl, id, account_id, url, title) ==
    tbl \cup {[note_id |-> id, account_id |-> account_id, url |-> url, title |-> ""]}

\* INSERT INTO tblNotes (account_id, url, title) VALUES (?, ?, ?)
InsertNote(tbl, id, account_id, url, title) ==
    tbl \cup {[note_id |-> id, account_id |-> account_id, url |-> url, title |-> title]}

\* Mutant: the store hands out the same key again.
NextNoteId_Reuse(id) == id

\* the key the store generates for the next inserted row
NextNoteId(id) == id + 1

\* Mutant: the UPDATE's WHERE clause selects the other rows.
UpdateTitle_WrongRow(tbl, note_id, title) ==
    {IF n.note_id # note_id THEN [n EXCEPT !.title = title] ELSE n : n \in tbl}

\* Mutant: the UPDATE has no WHERE clause.
UpdateTitle_AllRows(tbl, note_id, title) ==
    {[n EXCEPT !.title = title] : n \in tbl}

\* UPDATE tblNotes SET title = ? WHERE note_id = ?
UpdateTitle(tbl, note_id, title) ==
    {IF n.note_id = note_id THEN [n EXCEPT !.title = title] ELSE n : n \in tbl}

\* DELETE FROM tblNotes WHERE note_id = ?
DeleteNote(tbl, note_id) == {n \in tbl : n.note_id # note_id}

\* Mutant: the file is left in place.
RemoveFile_Keep(files, path) == files

\* tokio::fs::remove_file
RemoveFile(files, path) == [files EXCEPT ![path] = NoFile]

\* Mutant: the upload is dropped instead of moved to the path.
PersistTo_Lost(files, path, content) == files

\* TempFile::persist_to
PersistTo(files, path, content) == [files EXCEPT ![path] = content]

\* An external failure of a database or disk call, while the budget lasts.
Failures == IF nfaults < MaxFaults THEN {FALSE, TRUE} ELSE {FALSE}

Ok == [status |-> "Ok", msg |-> "", body |-> {}]
OkJson(body) == [status |-> "Ok", msg |-> "", body |-> body]
NotFound(msg) == [status |-> "NotFound", msg |-> msg, body |-> {}]
InternalError(msg) == [status |-> "InternalError", msg |-> msg, body |-> {}]

NoArg == [account_id |-> 0, note_id |-> 0, title |-> "", content |-> ""]
NoLoc == [file_name |-> NoName, db_note |-> NoNote]
NoOutcome == [kind |-> "none", at |-> "idle", seq |-> 0]

\* Requests whose handler has returned and whose response is not yet sent.
Returned == {q \in Reqs : pc[q] = "done"}

\* The handler returns res; kind names the injected failure that caused it, if any.
Return(r, res, kind) ==
    /\ pc' = [pc EXCEPT ![r] = "done"]
    /\ result' = [result EXCEPT ![r] = res]
    /\ outcome' = [outcome EXCEPT ![r] = [kind |-> kind, at |-> pc[r],
                                          seq |-> Cardinality(Returned) + 1]]
    /\ nfaults' = IF kind = "none" THEN nfaults ELSE nfaults + 1
    /\ loc' = [loc EXCEPT ![r] = NoLoc]

\* The handler goes on to its next await.
Goto(r, label) ==
    /\ pc' = [pc EXCEPT ![r] = label]
    /\ UNCHANGED <<result, outcome, nfaults>>

\* ------------------------------------------------------------ Init
Init ==
    /\ static_file_directory \in Dirs \cup {NoDir}
    /\ fs = [p \in Paths |-> NoFile]
    /\ tblNotes = {}
    /\ auto_increment = 1
    /\ issued = {}
    /\ pc = [r \in Reqs |-> "idle"]
    /\ op = [r \in Reqs |-> "none"]
    /\ arg = [r \in Reqs |-> NoArg]
    /\ loc = [r \in Reqs |-> NoLoc]
    /\ result = [r \in Reqs |-> Ok]
    /\ outcome = [r \in Reqs |-> NoOutcome]
    /\ nfaults = 0
    /\ deleted = {}
    /\ created = [n \in NoteIds |-> NoteFileUrl(NoName)]

\* ------------------------------------------------------------ requests
\* The calls a client can make, one per route of the module.
Calls ==
    [op : {"add_note"}, account_id : AccountIds, note_id : {0},
     title : Titles, content : Contents]
    \cup [op : {"fetch_notes"}, account_id : AccountIds, note_id : {0},
          title : {""}, content : {""}]
    \cup [op : {"update_note_content"}, account_id : {0}, note_id : NoteIds,
          title : {""}, content : Contents]
    \cup [op : {"update_note_title"}, account_id : {0}, note_id : NoteIds,
          title : Titles, content : Contents]
    \cup [op : {"remove_note"}, account_id : {0}, note_id : NoteIds,
          title : {""}, content : {""}]

\* The first await of each handler.
Entry(o) ==
    CASE o = "add_note" -> "add_check"
      [] o = "fetch_notes" -> "fetch_check"
      [] o = "update_note_content" -> "uc_fetch"
      [] o = "update_note_title" -> "ut_fetch"
      [] o = "remove_note" -> "rm_fetch"

\* add_note calls that may still ask for a file name
Pending == {q \in Reqs : pc[q] = "add_check"}

\* Rocket dispatches a request to its handler.
Dispatch(r, c) ==
    /\ pc[r] = "idle"
    /\ c.op = "add_note" => Cardinality(issued) + Cardinality(Pending) < MaxFiles
    /\ op' = [op EXCEPT ![r] = c.op]
    /\ arg' = [arg EXCEPT ![r] = [account_id |-> c.account_id, note_id |-> c.note_id,
                                  title |-> c.title, content |-> c.content]]
    /\ pc' = [pc EXCEPT ![r] = Entry(c.op)]
    /\ UNCHANGED <<static_file_directory, fs, tblNotes, auto_increment, issued, loc,
                   result, outcome, nfaults, deleted, created>>

Begin(r) == \E c \in Calls : Dispatch(r, c)

\* The response has been sent; the slot serves the next request.
Respond(r) ==
    /\ pc[r] = "done"
    /\ pc' = [pc EXCEPT ![r] = "idle"]
    /\ op' = [op EXCEPT ![r] = "none"]
    /\ arg' = [arg EXCEPT ![r] = NoArg]
    /\ result' = [result EXCEPT ![r] = Ok]
    /\ outcome' = [q \in Reqs |->
                      IF q = r THEN NoOutcome
                      ELSE IF outcome[q].seq > outcome[r].seq
                           THEN [outcome[q] EXCEPT !.seq = @ - 1]
                           ELSE outcome[q]]
    /\ UNCHANGED <<static_file_directory, fs, tblNotes, auto_increment, issued, loc,
                   nfaults, deleted, created>>

\* ------------------------------------------------------------ fetch_notes
FetchNotesCheckAccount(r) ==
    /\ pc[r] = "fetch_check"
    /\ \E fail \in Failures :
         IF fail \/ ~AccountExists(arg[r].account_id)
         THEN Return(r, NotFound("User account not found"), IF fail THEN "db" ELSE "none")
         ELSE Goto(r, "fetch_query") /\ UNCHANGED loc
    /\ UNCHANGED <<static_file_directory, fs, tblNotes, auto_increment, issued, op,
                   arg, deleted, created>>

FetchNotesQuery(r) ==
    /\ pc[r] = "fetch_query"
    /\ \E fail \in Failures :
         IF fail
         THEN Return(r, NotFound("No notes where found"), "db")
         ELSE Return(r, OkJson(ListNotes(tblNotes, arg[r].account_id)), "none")
    /\ UNCHANGED <<static_file_directory, fs, tblNotes, auto_increment, issued, op,
                   arg, deleted, created>>

\* ------------------------------------------------------------ add_note
\* Mutant: the account row is not looked up.
AddNoteCheckAccount_NoCheck(r) ==
    /\ pc[r] = "add_check"
    /\ \E file_uuid \in FileNames \ issued :
         /\ issued' = issued \cup {file_uuid}
         /\ loc' = [loc EXCEPT ![r].file_name = file_uuid]
         /\ Goto(r, "add_persist")
    /\ UNCHANGED <<static_file_directory, fs, tblNotes, auto_increment, op, arg,
                   deleted, created>>

AddNoteCheckAccount(r) ==
    /\ pc[r] = "add_check"
    /\ \E fail \in Failures :
         IF fail \/ ~AccountExists(arg[r].account_id)
         THEN /\ Return(r, NotFound("User account not found"), IF fail THEN "db" ELSE "none")
              /\ UNCHANGED issued
         ELSE \E file_uuid \in FileNames \ issued :
                /\ issued' = issued \cup {file_uuid}
                /\ loc' = [loc EXCEPT ![r].file_name = file_uuid]
                /\ Goto(r, "add_persist")
    /\ UNCHANGED <<static_file_directory, fs, tblNotes, auto_increment, op, arg,
                   deleted, created>>

\* Mutant: a failed persist_to is ignored and the INSERT still runs.
AddNotePersist_IgnoreError(r) ==
    /\ pc[r] = "add_persist"
    /\ IF static_file_directory = NoDir
       THEN /\ Goto(r, "add_insert")
            /\ UNCHANGED <<fs, loc>>
       ELSE \E fail \in Failures :
              /\ fs' = IF fail THEN fs
                       ELSE PersistTo(fs, NoteFilePath(static_file_directory,
                                                       loc[r].file_name), arg[r].content)
              /\ Goto(r, "add_insert")
              /\ UNCHANGED loc
    /\ UNCHANGED <<static_file_directory, tblNotes, auto_increment, issued, op, arg,
                   deleted, created>>

AddNotePersist(r) ==
    /\ pc[r] = "add_persist"
    /\ IF static_file_directory = NoDir
       THEN /\ Return(r, InternalError("Unable to find static file directory"), "none")
            /\ UNCHANGED fs
       ELSE \E fail \in Failures :
              IF fail
              THEN Return(r, InternalError("Unable to save file"), "fs") /\ UNCHANGED fs
              ELSE /\ fs' = PersistTo(fs, NoteFilePath(static_file_directory, loc[r].file_name),
                                      arg[r].content)
                   /\ Goto(r, "add_insert")
                   /\ UNCHANGED loc
    /\ UNCHANGED <<static_file_directory, tblNotes, auto_increment, issued, op, arg,
                   deleted, created>>

\* Mutant: a failed INSERT rolls the written file back.
AddNoteInsert_Rollback(r) ==
    /\ pc[r] = "add_insert"
    /\ \E fail \in Failures :
         IF fail
         THEN /\ Return(r, InternalError("Unable to save file in database"), "db")
              /\ fs' = RemoveFile(fs, NoteFilePath(static_file_directory, loc[r].file_name))
              /\ UNCHANGED <<tblNotes, auto_increment, created>>
         ELSE /\ tblNotes' = InsertNote(tblNotes, auto_increment, arg[r].account_id,
                                        NoteFileUrl(loc[r].file_name), arg[r].title)
              /\ auto_increment' = NextNoteId(auto_increment)
              /\ created' = [created EXCEPT ![auto_increment] = NoteFileUrl(loc[r].file_name)]
              /\ Return(r, Ok, "none")
              /\ UNCHANGED fs
    /\ UNCHANGED <<static_file_directory, issued, op, arg, deleted>>

AddNoteInsert(r) ==
    /\ pc[r] = "add_insert"
    /\ \E fail \in Failures :
         IF fail
         THEN /\ Return(r, InternalError("Unable to save file in database"), "db")
              /\ UNCHANGED <<tblNotes, auto_increment, created>>
         ELSE /\ tblNotes' = InsertNote(tblNotes, auto_increment, arg[r].account_id,
                                        NoteFileUrl(loc[r].file_name), arg[r].title)
              /\ auto_increment' = NextNoteId(auto_increment)
              /\ created' = [created EXCEPT ![auto_increment] = NoteFileUrl(loc[r].file_name)]
              /\ Return(r, Ok, "none")
    /\ UNCHANGED <<static_file_directory, fs, issued, op, arg, deleted>>

\* ------------------------------------------------------------ update_note_content
UpdateContentFetch(r) ==
    /\ pc[r] = "uc_fetch"
    /\ \E fail \in Failures :
         IF fail \/ SelectNote(tblNotes, arg[r].note_id) = {}
         THEN Return(r, NotFound("Note not found"), IF fail THEN "db" ELSE "none")
         ELSE /\ loc' = [loc EXCEPT ![r].db_note =
                             CHOOSE n \in SelectNote(tblNotes, arg[r].note_id) : TRUE]
              /\ Goto(r, "uc_remove")
    /\ UNCHANGED <<static_file_directory, fs, tblNotes, auto_increment, issued, op,
                   arg, deleted, created>>

\* Mutant: a missing file is not an error of the delete step (idempotent delete).
UpdateContentRemove_Tolerant(r) ==
    /\ pc[r] = "uc_remove"
    /\ LET file_path == FilePath(loc[r].db_note.url) IN
       \E fail \in Failures :
         IF fail
         THEN /\ Return(r, InternalError("Unable to update static file"), "fs")
              /\ UNCHANGED fs
         ELSE /\ fs' = RemoveFile(fs, file_path)
              /\ Goto(r, "uc_persist")
              /\ UNCHANGED loc
    /\ UNCHANGED <<static_file_directory, tblNotes, auto_increment, issued, op, arg,
                   deleted, created>>

UpdateContentRemove(r) ==
    /\ pc[r] = "uc_remove"
    /\ LET file_path == FilePath(loc[r].db_note.url) IN
       \E fail \in Failures :
         IF fail \/ fs[file_path] = NoFile
         THEN /\ Return(r, InternalError("Unable to update static file"),
                        IF fail THEN "fs" ELSE "none")
              /\ UNCHANGED fs
         ELSE /\ fs' = RemoveFile(fs, file_path)
              /\ Goto(r, "uc_persist")
              /\ UNCHANGED loc
    /\ UNCHANGED <<static_file_directory, tblNotes, auto_increment, issued, op, arg,
                   deleted, created>>

UpdateContentPersist(r) ==
    /\ pc[r] = "uc_persist"
    /\ LET file_path == FilePath(loc[r].db_note.url) IN
       \E fail \in Failures :
         IF fail
         THEN /\ Return(r, InternalError("Unable to update static file"), "fs")
              /\ UNCHANGED fs
         ELSE /\ fs' = PersistTo(fs, file_path, arg[r].content)
              /\ Return(r, Ok, "none")
    /\ UNCHANGED <<static_file_directory, tblNotes, auto_increment, issued, op, arg,
                   deleted, created>>

\* ------------------------------------------------------------ update_note_title
UpdateTitleFetch(r) ==
    /\ pc[r] = "ut_fetch"
    /\ \E fail \in Failures :
         IF fail \/ SelectNote(tblNotes, arg[r].note_id) = {}
         THEN Return(r, NotFound("Note not found"), IF fail THEN "db" ELSE "none")
         ELSE /\ loc' = [loc EXCEPT ![r].db_note =
                             CHOOSE n \in SelectNote(tblNotes, arg[r].note_id) : TRUE]
              /\ Goto(r, "ut_remove")
    /\ UNCHANGED <<static_file_directory, fs, tblNotes, auto_increment, issued, op,
                   arg, deleted, created>>

\* Mutant: the title is written in the delete step, before the file steps are done.
UpdateTitleRemove_TitleFirst(r) ==
    /\ pc[r] = "ut_remove"
    /\ tblNotes' = UpdateTitle(tblNotes, arg[r].note_id, arg[r].title)
    /\ LET file_path == FilePath(loc[r].db_note.url) IN
       \E fail \in Failures :
         IF fail \/ fs[file_path] = NoFile
         THEN /\ Return(r, InternalError("Unable to update static file"),
                        IF fail THEN "fs" ELSE "none")
              /\ UNCHANGED fs
         ELSE /\ fs' = RemoveFile(fs, file_path)
              /\ Goto(r, "ut_persist")
              /\ UNCHANGED loc
    /\ UNCHANGED <<static_file_directory, auto_increment, issued, op, arg,
                   deleted, created>>

UpdateTitleRemove(r) ==
    /\ pc[r] = "ut_remove"
    /\ LET file_path == FilePath(loc[r].db_note.url) IN
       \E fail \in Failures :
         IF fail \/ fs[file_path] = NoFile
         THEN /\ Return(r, InternalError("Unable to update static file"),
                        IF fail THEN "fs" ELSE "none")
              /\ UNCHANGED fs
         ELSE /\ fs' = RemoveFile(fs, file_path)
              /\ Goto(r, "ut_persist")
              /\ UNCHANGED loc
    /\ UNCHANGED <<static_file_directory, tblNotes, auto_increment, issued, op, arg,
                   deleted, created>>

UpdateTitlePersist(r) ==
    /\ pc[r] = "ut_persist"
    /\ LET file_path == FilePath(loc[r].db_note.url) IN
       \E fail \in Failures :
         IF fail
         THEN /\ Return(r, InternalError("Unable to update static file"), "fs")
              /\ UNCHANGED fs
         ELSE /\ fs' = PersistTo(fs, file_path, arg[r].content)
              /\ Goto(r, "ut_execute") /\ UNCHANGED loc
    /\ UNCHANGED <<static_file_directory, tblNotes, auto_increment, issued, op, arg,
                   deleted, created>>

UpdateTitleExecute(r) ==
    /\ pc[r] = "ut_execute"
    /\ \E fail \in Failures :
         IF fail
         THEN /\ Return(r, InternalError("Failed to update the notes title"), "db")
              /\ UNCHANGED tblNotes
         ELSE /\ tblNotes' = UpdateTitle(tblNotes, arg[r].note_id, arg[r].title)
              /\ Return(r, Ok, "none")
    /\ UNCHANGED <<static_file_directory, fs, auto_increment, issued, op, arg,
                   deleted, created>>

\* ------------------------------------------------------------ remove_note
\* Mutant: a missing row is answered by deleting whatever file name 1 denotes.
RemoveNoteFetch_Blind(r) ==
    /\ pc[r] = "rm_fetch"
    /\ IF SelectNote(tblNotes, arg[r].note_id) = {}
       THEN /\ fs' = RemoveFile(fs, FilePath(NoteFileUrl(1)))
            /\ Return(r, Ok, "none")
       ELSE /\ loc' = [loc EXCEPT ![r].db_note =
                           CHOOSE n \in SelectNote(tblNotes, arg[r].note_id) : TRUE]
            /\ Goto(r, "rm_remove")
            /\ UNCHANGED fs
    /\ UNCHANGED <<static_file_directory, tblNotes, auto_increment, issued, op,
                   arg, deleted, created>>

RemoveNoteFetch(r) ==
    /\ pc[r] = "rm_fetch"
    /\ \E fail \in Failures :
         IF fail \/ SelectNote(tblNotes, arg[r].note_id) = {}
         THEN Return(r, NotFound("Note not found"), IF fail THEN "db" ELSE "none")
         ELSE /\ loc' = [loc EXCEPT ![r].db_note =
                             CHOOSE n \in SelectNote(tblNotes, arg[r].note_id) : TRUE]
              /\ Goto(r, "rm_remove")
    /\ UNCHANGED <<static_file_directory, fs, tblNotes, auto_increment, issued, op,
                   arg, deleted, created>>

\* Mutant: removing a file that is already gone counts as success.
RemoveNoteRemoveFile_Tolerant(r) ==
    /\ pc[r] = "rm_remove"
    /\ LET file_path == FilePath(loc[r].db_note.url) IN
       \E fail \in Failures :
         IF fail
         THEN /\ Return(r, InternalError("Unable to delete static file"), "fs")
              /\ UNCHANGED fs
         ELSE /\ fs' = RemoveFile(fs, file_path)
              /\ Goto(r, "rm_execute")
              /\ UNCHANGED loc
    /\ UNCHANGED <<static_file_directory, tblNotes, auto_increment, issued, op, arg,
                   deleted, created>>

\* Mutant: the handler goes on to the DELETE without removing the file.
RemoveNoteRemoveFile_Skip(r) ==
    /\ pc[r] = "rm_remove"
    /\ Goto(r, "rm_execute")
    /\ UNCHANGED <<static_file_directory, fs, tblNotes, auto_increment, issued, op, arg,
                   loc, deleted, created>>

\* Mutant: a failed remove_file is ignored and the DELETE still runs.
RemoveNoteRemoveFile_IgnoreError(r) ==
    /\ pc[r] = "rm_remove"
    /\ LET file_path == FilePath(loc[r].db_note.url) IN
       \E fail \in Failures :
         /\ fs' = IF fail THEN fs ELSE RemoveFile(fs, file_path)
         /\ Goto(r, "rm_execute")
         /\ UNCHANGED loc
    /\ UNCHANGED <<static_file_directory, tblNotes, auto_increment, issued, op, arg,
                   deleted, created>>

RemoveNoteRemoveFile(r) ==
    /\ pc[r] = "rm_remove"
    /\ LET file_path == FilePath(loc[r].db_note.url) IN
       \E fail \in Failures :
         IF fail \/ fs[file_path] = NoFile
         THEN /\ Return(r, InternalError("Unable to delete static file"),
                        IF fail THEN "fs" ELSE "none")
              /\ UNCHANGED fs
         ELSE /\ fs' = RemoveFile(fs, file_path)
              /\ Goto(r, "rm_execute")
              /\ UNCHANGED loc
    /\ UNCHANGED <<static_file_directory, tblNotes, auto_increment, issued, op, arg,
                   deleted, created>>

RemoveNoteExecute(r) ==
    /\ pc[r] = "rm_execute"
    /\ \E fail \in Failures :
         IF fail
         THEN /\ Return(r, InternalError("Unable to remove file from database"), "db")
              /\ UNCHANGED <<tblNotes, deleted>>
         ELSE /\ tblNotes' = DeleteNote(tblNotes, arg[r].note_id)
              /\ deleted' = deleted \cup {arg[r].note_id}
              /\ Return(r, Ok, "none")
    /\ UNCHANGED <<static_file_directory, fs, auto_increment, issued, op, arg, created>>

\* ------------------------------------------------------------ specification
Step(r) ==
    \/ FetchNotesCheckAccount(r)
    \/ FetchNotesQuery(r)
    \/ AddNoteCheckAccount(r)
    \/ AddNotePersist(r)
    \/ AddNoteInsert(r)
    \/ UpdateContentFetch(r)
    \/ UpdateContentRemove(r)
    \/ UpdateContentPersist(r)
    \/ UpdateTitleFetch(r)
    \/ UpdateTitleRemove(r)
    \/ UpdateTitlePersist(r)
    \/ UpdateTitleExecute(r)
    \/ RemoveNoteFetch(r)
    \/ RemoveNoteRemoveFile(r)
    \/ RemoveNoteExecute(r)

\* Requests are served concurrently: any handler may take its next step.
ConcBegin(r) ==
    \E c \in Calls :
        /\ c.op = "add_note" => Cardinality(issued) + Cardinality(Pending) < ConcFiles
        /\ Dispatch(r, c)

Next == \E r \in Reqs : ConcBegin(r) \/ Step(r) \/ Respond(r)

Spec == Init /\ [][Next]_vars

\* Requests are served one at a time: a call is dispatched when no other is open.
SeqBegin(r) == (\A q \in Reqs : pc[q] = "idle") /\ Begin(r)

SeqNext == \E r \in Reqs : SeqBegin(r) \/ Step(r) \/ Respond(r)

SeqSpec == Init /\ [][SeqNext]_vars

\* Two update_note_content calls race on one note that add_note created; the
\* database and the disk do not fail.
RaceInit ==
    /\ static_file_directory = "static"
    /\ \E t \in Titles, c \in Contents :
         /\ tblNotes = InsertNote({}, 1, 1, NoteFileUrl(1), t)
         /\ fs = PersistTo([p \in Paths |-> NoFile], NoteFilePath("static", 1), c)
    /\ auto_increment = NextNoteId(1)
    /\ issued = {1}
    /\ pc = [r \in Reqs |-> "idle"]
    /\ op = [r \in Reqs |-> "none"]
    /\ arg = [r \in Reqs |-> NoArg]
    /\ loc = [r \in Reqs |-> NoLoc]
    /\ result = [r \in Reqs |-> Ok]
    /\ outcome = [r \in Reqs |-> NoOutcome]
    /\ nfaults = MaxFaults
    /\ deleted = {}
    /\ created = [n \in NoteIds |-> IF n = 1 THEN NoteFileUrl(1) ELSE NoteFileUrl(NoName)]

RaceBegin(r) ==
    \E c \in Calls :
        /\ c.op = "update_note_content"
        /\ c.note_id = 1
        /\ Dispatch(r, c)

RaceNext ==
    \E r \in Reqs :
        \/ RaceBegin(r)
        \/ UpdateContentFetch(r)
        \/ UpdateContentRemove(r)
        \/ UpdateContentPersist(r)

RaceSpec == RaceInit /\ [][RaceNext]_vars

\* remove_note calls race on one note that add_note created, interleaved with
\* updates of that note; the database and the disk do not fail.
DelRaceInit ==
    /\ static_file_directory = "static"
    /\ \E t \in Titles, c \in Contents :
         /\ tblNotes = InsertNote({}, 1, 1, NoteFileUrl(1), t)
         /\ fs = PersistTo([p \in Paths |-> NoFile], NoteFilePath("static", 1), c)
    /\ auto_increment = NextNoteId(1)
    /\ issued = {1}
    /\ pc = [r \in Reqs |-> "idle"]
    /\ op = [r \in Reqs |-> "none"]
    /\ arg = [r \in Reqs |-> NoArg]
    /\ loc = [r \in Reqs |-> NoLoc]
    /\ result = [r \in Reqs |-> Ok]
    /\ outcome = [r \in Reqs |-> NoOutcome]
    /\ nfaults = MaxFaults
    /\ deleted = {}
    /\ created = [n \in NoteIds |-> IF n = 1 THEN NoteFileUrl(1) ELSE NoteFileUrl(NoName)]

DelRaceBegin(r) ==
    \E c \in Calls :
        /\ c.op \in {"remove_note", "update_note_content", "update_note_title"}
        /\ c.note_id = 1
        /\ Dispatch(r, c)

\* The response of an update is delivered and its slot serves the next
\* request; the responses of the deletes stay to be compared.
DelRaceRespond(r) ==
    /\ op[r] # "remove_note"
    /\ Respond(r)

DelRaceNext ==
    \E r \in Reqs :
        \/ DelRaceBegin(r)
        \/ RemoveNoteFetch(r)
        \/ RemoveNoteRemoveFile(r)
        \/ RemoveNoteExecute(r)
        \/ UpdateContentFetch(r)
        \/ UpdateContentRemove(r)
        \/ UpdateContentPersist(r)
        \/ UpdateTitleFetch(r)
        \/ UpdateTitleRemove(r)
        \/ UpdateTitlePersist(r)
        \/ UpdateTitleExecute(r)
        \/ DelRaceRespond(r)

DelRaceSpec == DelRaceInit /\ [][DelRaceNext]_vars

TypeOK ==
    /\ static_file_directory \in Dirs \cup {NoDir}
    /\ fs \in [Paths -> Contents \cup {NoFile}]
    /\ auto_increment \in 1..(MaxFiles + 1)
    /\ issued \subseteq FileNames
    /\ nfaults \in 0..MaxFaults
    /\ deleted \subseteq NoteIds
    /\ \A n \in tblNotes : n.note_id \in NoteIds /\ n.account_id \in tblAccount

\* ------------------------------------------------------------ claims
Row(note_id) == CHOOSE n \in SelectNote(tblNotes, note_id) : TRUE

\* C1 (as stated): fetch_notes never returns a success carrying an empty
\* list; an existing account with zero notes gets not-found.
C1_ZeroNotesNotFound ==
    \A r \in Reqs :
        (op[r] = "fetch_notes" /\ pc[r] = "done" /\ result[r].status = "Ok")
            => result[r].body # {}

\* C2: the step of add_note that returns success adds exactly one entry to
\* the account's list, with the submitted title, and the file written for the
\* file name in that entry's url holds the submitted content.
C2_CreateThenList ==
    [][\A r \in Reqs :
         (pc[r] = "add_insert" /\ pc'[r] = "done" /\ result'[r].status = "Ok")
         => LET before == ListNotes(tblNotes, arg[r].account_id)
                after == ListNotes(tblNotes', arg[r].account_id)
            IN /\ before \subseteq after
               /\ Cardinality(after \ before) = 1
               /\ \A e \in after \ before :
                    /\ e.title = arg[r].title
                    /\ \E u \in FileNames :
                         /\ e.url = NoteFileUrl(u)
                         /\ fs'[NoteFilePath(static_file_directory, u)] = arg[r].content
      ]_vars

\* C2 witness: a second add_note has succeeded for an account that had a note.
C2_Witness ==
    \E r \in Reqs :
        /\ op[r] = "add_note" /\ pc[r] = "done" /\ result[r].status = "Ok"
        /\ Cardinality(ListNotes(tblNotes, arg[r].account_id)) = 2

\* C3: for an account id with no row in tblAccount, add_note and fetch_notes
\* return not-found in their first step, which writes no file, inserts no
\* row and draws no file name.
C3_UnknownAccount ==
    [][\A r \in Reqs :
         (/\ pc[r] \in {"add_check", "fetch_check"}
          /\ ~AccountExists(arg[r].account_id)
          /\ pc'[r] # pc[r])
         => /\ pc'[r] = "done"
            /\ result'[r].status = "NotFound"
            /\ fs' = fs /\ tblNotes' = tblNotes /\ issued' = issued
      ]_vars

\* C3 witness: add_note for the unknown account 2 has returned not-found
\* while nothing failed, beside an existing note.
C3_Witness ==
    \E r \in Reqs :
        /\ op[r] = "add_note" /\ pc[r] = "done"
        /\ ~AccountExists(arg[r].account_id)
        /\ result[r].status = "NotFound" /\ outcome[r].kind = "none"
        /\ tblNotes # {}

\* C4: once remove_note has returned Ok for a note id, no lookup by that id
\* and no account's list finds a note with it, whatever is called afterwards.
C4_DeletedStaysGone ==
    \A id \in deleted :
        /\ SelectNote(tblNotes, id) = {}
        /\ \A a \in AccountIds : \A e \in ListNotes(tblNotes, a) : e.note_id # id

\* C4 witness: after a successful remove_note, a later add_note has inserted a row.
C4_Witness == deleted # {} /\ tblNotes # {}

\* C5: remove_note on a note id without a row returns not-found in its
\* lookup step, which leaves every file and every row as it was.
C5_DeleteMissing ==
    [][\A r \in Reqs :
         (/\ pc[r] = "rm_fetch"
          /\ SelectNote(tblNotes, arg[r].note_id) = {}
          /\ pc'[r] # pc[r])
         => /\ pc'[r] = "done"
            /\ result'[r].status = "NotFound"
            /\ fs' = fs /\ tblNotes' = tblNotes
      ]_vars

\* C5 witness: remove_note has returned not-found for a missing row while a
\* file that a blind delete would remove exists.
C5_Witness ==
    \E r \in Reqs :
        /\ op[r] = "remove_note" /\ pc[r] = "done"
        /\ result[r].status = "NotFound" /\ outcome[r].kind = "none"
        /\ SelectNote(tblNotes, arg[r].note_id) = {}
        /\ fs[FilePath(NoteFileUrl(1))] # NoFile

\* C6, the state after the round trip: when update_note_title has returned
\* Ok, the note's row carries the new title and the url add_note gave it, and
\* the file that url names holds the new content.
C6_Observed ==
    \A r \in Reqs :
        (op[r] = "update_note_title" /\ pc[r] = "done" /\ result[r].status = "Ok")
        => /\ SelectNote(tblNotes, arg[r].note_id) # {}
           /\ \A n \in SelectNote(tblNotes, arg[r].note_id) :
                /\ n.title = arg[r].title
                /\ n.url = created[n.note_id]
                /\ fs[FilePath(n.url)] = arg[r].content

\* C6, the steps of the update: no step of update_note_title draws a file
\* name or changes a row's url.
C6_NothingMinted ==
    \A r \in Reqs :
        (op[r] = "update_note_title" /\ pc'[r] # pc[r])
        => /\ issued' = issued
           /\ {n.url : n \in tblNotes'} = {n.url : n \in tblNotes}

\* C6: add_note(T, C) then update_note_title(T2, C2) then a read observes
\* title T2 and content C2 under the url assigned at creation; the update
\* mints no identifier.
C6_RoundTrip == []C6_Observed /\ [][C6_NothingMinted]_vars

\* C6 witness: a note created as (T, C) has been updated to (T2, C2).
C6_Witness ==
    \E r \in Reqs :
        /\ op[r] = "update_note_title" /\ pc[r] = "done" /\ result[r].status = "Ok"
        /\ arg[r].title = "T2" /\ arg[r].content = "C2"
        /\ Cardinality(tblNotes) = 2
        /\ \E n \in tblNotes : n.note_id # arg[r].note_id /\ n.title = "T"

\* C7: while update_note_content stands between its delete and its write, and
\* after its write has failed, the note's row is present and its file is
\* absent: the old content is gone.
C7_MissingAfterFailedWrite ==
    \A r \in Reqs :
        (/\ op[r] = "update_note_content"
         /\ \/ pc[r] = "uc_persist"
            \/ pc[r] = "done" /\ outcome[r].at = "uc_persist" /\ result[r].status # "Ok")
        => /\ SelectNote(tblNotes, arg[r].note_id) # {}
           /\ \A n \in SelectNote(tblNotes, arg[r].note_id) : fs[FilePath(n.url)] = NoFile

\* C7 witness: the write of an update_note_content has failed.
C7_Witness ==
    \E r \in Reqs :
        /\ op[r] = "update_note_content" /\ pc[r] = "done"
        /\ outcome[r].at = "uc_persist"
        /\ result[r] = InternalError("Unable to update static file")

\* Both racing calls have returned.
RaceDone == \A r \in Reqs : pc[r] = "done"

\* The call that returned last.
RaceLast == CHOOSE r \in Reqs : outcome[r].seq = NumReqs

\* C8 (as stated): under every interleaving neither racing call reports an
\* error and the file ends with the content of the call that finished last.
C8_RaceUndetected ==
    RaceDone
    => /\ \A r \in Reqs : result[r].status = "Ok"
       /\ fs[FilePath(Row(arg[RaceLast].note_id).url)] = arg[RaceLast].content

\* What the race does guarantee: a racing call returns internal-error only
\* from its delete step (the other call has removed the file and not yet
\* rewritten it); the call that returns last succeeds and the file ends with
\* its content.
C8_LastWriterWins ==
    RaceDone
    => /\ \A r \in Reqs :
            result[r].status # "Ok"
            => /\ result[r] = InternalError("Unable to update static file")
               /\ outcome[r].at = "uc_remove"
       /\ result[RaceLast].status = "Ok"
       /\ fs[FilePath(Row(arg[RaceLast].note_id).url)] = arg[RaceLast].content

\* Both calls have returned, one of them with the error, and they submitted
\* different contents.
RaceDetected ==
    /\ RaceDone
    /\ \E r \in Reqs : result[r].status = "InternalError"
    /\ \E r, q \in Reqs : arg[r].content # arg[q].content

\* C9 (as stated): at the step that inserts the row, the path update and
\* delete derive from the row's url names a file holding the submitted
\* content, whatever static_file_directory is.
C9_UrlPathExists ==
    [][\A r \in Reqs :
         (pc[r] = "add_insert" /\ pc'[r] = "done" /\ result'[r].status = "Ok")
         => \A n \in tblNotes' \ tblNotes : fs'[FilePath(n.url)] = arg[r].content
      ]_vars

\* C10 (as stated): a database failure in any step of add_note,
\* update_note_content, update_note_title or remove_note is reported as
\* internal-error, the lookup steps included.
C10_DbFailureInternal ==
    \A r \in Reqs :
        (/\ op[r] \in {"add_note", "update_note_content", "update_note_title", "remove_note"}
         /\ pc[r] = "done"
         /\ outcome[r].kind = "db")
        => result[r].status = "InternalError"

\* C11: a remove_file step of remove_note that removes nothing has failed:
\* the handler returns internal-error in that step, the DELETE never runs,
\* and the row it looked up is still in tblNotes with every field as it was.
C11_FailedFileDeleteKeepsRow ==
    [][\A r \in Reqs :
         (pc[r] = "rm_remove" /\ pc'[r] # pc[r] /\ fs' = fs)
         => /\ pc'[r] = "done"
            /\ result'[r] = InternalError("Unable to delete static file")
            /\ tblNotes' = tblNotes /\ deleted' = deleted
            /\ loc[r].db_note \in tblNotes'
      ]_vars

\* C11 witness: remove_file failed on a file that exists (a disk failure).
C11_Witness ==
    \E r \in Reqs :
        /\ op[r] = "remove_note" /\ pc[r] = "done" /\ outcome[r].at = "rm_remove"
        /\ outcome[r].kind = "fs"
        /\ fs[FilePath(Row(arg[r].note_id).url)] # NoFile

\* The note id was handed out by an INSERT.
Created(note_id) == note_id \in NoteIds /\ note_id < auto_increment

\* C12: remove_note removes the file before the row.  When the DELETE fails
\* after remove_file succeeded the handler returns internal-error with the
\* file absent and the row present; and at no point of a remove_note is the
\* row gone while the file remains.
C12_FileGoesFirst ==
    \A r \in Reqs :
        op[r] = "remove_note"
        => /\ (pc[r] = "done" /\ outcome[r].at = "rm_execute" /\ result[r].status # "Ok")
              => /\ result[r] = InternalError("Unable to remove file from database")
                 /\ SelectNote(tblNotes, arg[r].note_id) # {}
                 /\ fs[FilePath(Row(arg[r].note_id).url)] = NoFile
           /\ (pc[r] # "idle" /\ Created(arg[r].note_id))
              => ~(/\ SelectNote(tblNotes, arg[r].note_id) = {}
                   /\ fs[FilePath(created[arg[r].note_id])] # NoFile)

\* C12 witness: the DELETE of a remove_note has failed after the file was removed.
C12_Witness ==
    \E r \in Reqs :
        /\ op[r] = "remove_note" /\ pc[r] = "done" /\ outcome[r].at = "rm_execute"
        /\ outcome[r].kind = "db"
        /\ result[r].status = "InternalError"

\* C13: when add_note's INSERT fails after persist_to succeeded, the handler
\* returns internal-error, no row carries the note's url, and the file
\* written by persist_to is still there with the submitted content.
C13_FailedInsertLeavesFile ==
    [][\A r \in Reqs :
         (pc[r] = "add_insert" /\ pc'[r] = "done" /\ result'[r].status # "Ok")
         => /\ result'[r] = InternalError("Unable to save file in database")
            /\ tblNotes' = tblNotes
            /\ \A n \in tblNotes' : n.url # NoteFileUrl(loc[r].file_name)
            /\ fs'[NoteFilePath(static_file_directory, loc[r].file_name)] = arg[r].content
      ]_vars

\* C13 witness: the INSERT has failed and a file without a row exists.
C13_Witness ==
    \E r \in Reqs :
        /\ op[r] = "add_note" /\ pc[r] = "done" /\ outcome[r].at = "add_insert"
        /\ outcome[r].kind = "db"
        /\ \E p \in Paths : fs[p] = arg[r].content /\ \A n \in tblNotes : n.url.file # p[2]

\* C14: an add_note whose write step writes nothing (persist_to failed, or
\* static_file_directory is not configured) returns internal-error in that
\* step: the INSERT is never attempted and no row and no file is added.
C14_FailedWriteAddsNothing ==
    [][\A r \in Reqs :
         (pc[r] = "add_persist" /\ pc'[r] # pc[r] /\ fs' = fs)
         => /\ pc'[r] = "done"
            /\ result'[r].status = "InternalError"
            /\ result'[r].msg = IF static_file_directory = NoDir
                                THEN "Unable to find static file directory"
                                ELSE "Unable to save file"
            /\ tblNotes' = tblNotes /\ auto_increment' = auto_increment
      ]_vars

\* C14 witness: persist_to has failed on a configured directory.
C14_Witness ==
    \E r \in Reqs :
        /\ op[r] = "add_note" /\ pc[r] = "done" /\ outcome[r].at = "add_persist"
        /\ outcome[r].kind = "fs"
        /\ result[r] = InternalError("Unable to save file")

\* C15: update_note_content and update_note_title on a note whose row exists
\* and whose file is already missing return internal-error in their delete
\* step: no file is written and the row, its title included, is unchanged.
C15_MissingFileFailsUpdate ==
    [][\A r \in Reqs :
         (/\ pc[r] \in {"uc_remove", "ut_remove"}
          /\ fs[FilePath(loc[r].db_note.url)] = NoFile
          /\ pc'[r] # pc[r])
         => /\ pc'[r] = "done"
            /\ result'[r] = InternalError("Unable to update static file")
            /\ fs' = fs
            /\ tblNotes' = tblNotes
            /\ loc[r].db_note \in tblNotes'
      ]_vars

\* C15 witness: an update of a note whose file an earlier failed write had
\* left missing has returned from its delete step, with no failure injected
\* into it.
C15_Witness ==
    \E r \in Reqs :
        /\ op[r] \in {"update_note_content", "update_note_title"}
        /\ pc[r] = "done" /\ outcome[r].at \in {"uc_remove", "ut_remove"}
        /\ outcome[r].kind = "none"
        /\ static_file_directory = "static"
        /\ SelectNote(tblNotes, arg[r].note_id) # {}

\* C16: update_note_title writes the title only in its last step, after the
\* delete and the write of the file succeeded: its earlier steps leave
\* tblNotes alone, and when the UPDATE fails the handler returns
\* internal-error with the file holding the new content and the row the old
\* title.
C16_TitleLast ==
    [][\A r \in Reqs :
         (op[r] = "update_note_title" /\ pc'[r] # pc[r])
         => /\ pc[r] # "ut_execute" => tblNotes' = tblNotes
            /\ (pc[r] = "ut_execute" /\ result'[r].status # "Ok")
               => /\ result'[r] = InternalError("Failed to update the notes title")
                  /\ tblNotes' = tblNotes
                  /\ loc[r].db_note \in tblNotes'
                  /\ fs'[FilePath(loc[r].db_note.url)] = arg[r].content
      ]_vars

\* C16 witness: the UPDATE failed; the file has the new content, the row the old title.
C16_Witness ==
    \E r \in Reqs :
        /\ op[r] = "update_note_title" /\ pc[r] = "done"
        /\ outcome[r].at = "ut_execute" /\ outcome[r].kind = "db"
        /\ \E n \in SelectNote(tblNotes, arg[r].note_id) :
             n.title # arg[r].title /\ fs[FilePath(n.url)] = arg[r].content

\* A handler has removed the note's file and not yet returned: the file is
\* missing because of an operation still in flight.
MidOperation(note_id) ==
    \E r \in Reqs :
        /\ pc[r] \in {"uc_persist", "ut_persist", "rm_execute"}
        /\ loc[r].db_note.note_id = note_id

\* OrphanedRecord: the row is present, the file its url names is missing,
\* and no operation is in the middle of replacing or deleting it.
OrphanedRecord(n) ==
    /\ n \in tblNotes
    /\ fs[FilePath(n.url)] = NoFile
    /\ ~MidOperation(n.note_id)

\* OrphanedBlob: the file is present, no row's url names it, and no add_note
\* is about to insert its row.
OrphanedBlob(p) ==
    /\ fs[p] # NoFile
    /\ \A n \in tblNotes : FilePath(n.url) # p
    /\ \A r \in Reqs :
         pc[r] = "add_insert" => FilePath(NoteFileUrl(loc[r].file_name)) # p

\* Orphans are terminal: no step of any handler restores the file of an
\* orphaned record, removes its row or changes the row's url, or removes or
\* adopts an orphaned blob.
OrphansStay ==
    /\ \A n \in tblNotes :
         OrphanedRecord(n)
         => /\ \E m \in tblNotes' : m.note_id = n.note_id /\ m.url = n.url
            /\ fs'[FilePath(n.url)] = NoFile
    /\ \A p \in Paths :
         OrphanedBlob(p)
         => fs'[p] = fs[p] /\ \A n \in tblNotes' : FilePath(n.url) # p

\* Every update or delete of an orphaned record that returns, returns
\* internal-error.
OrphanCallsFail ==
    \A r \in Reqs :
        (/\ op[r] \in {"update_note_content", "update_note_title", "remove_note"}
         /\ pc[r] # "done" /\ pc'[r] = "done"
         /\ \E n \in tblNotes : n.note_id = arg[r].note_id /\ OrphanedRecord(n))
        => result'[r].status = "InternalError"

\* The terminal part of C17 alone.
C17_Terminal == [][OrphansStay]_vars

\* C17 (as stated): orphaned records and orphaned blobs are terminal, and
\* every later update or delete of an orphaned record returns internal-error.
C17_OrphansTerminal == [][OrphansStay /\ OrphanCallsFail]_vars

\* The request takes the step from the given label to its return.
Finishes(r, label) == pc[r] = label /\ pc'[r] = "done"

\* What one step may do to the row n: leave it, delete it on behalf of a
\* remove_note addressed to it, or change its title (and nothing else) on
\* behalf of an update_note_title addressed to it.
RowFrame(n) ==
    LET after == {m \in tblNotes' : m.note_id = n.note_id} IN
    /\ Cardinality(after) <= 1
    /\ after = {}
       => \E r \in Reqs : Finishes(r, "rm_execute") /\ arg[r].note_id = n.note_id
    /\ \A m \in after :
         /\ m.account_id = n.account_id
         /\ m.url = n.url
         /\ m.title # n.title
            => \E r \in Reqs :
                 /\ Finishes(r, "ut_execute")
                 /\ arg[r].note_id = n.note_id
                 /\ m.title = arg[r].title

\* C18: a row's note_id, account_id and url never change after creation;
\* update_note_content changes no row, update_note_title changes only the
\* title of the note it addresses, and no operation changes a field of any
\* other note.
C18_RowsImmutable ==
    [][/\ \A n \in tblNotes : RowFrame(n)
       /\ \A r \in Reqs :
            op[r] = "update_note_content" /\ pc'[r] # pc[r]
            => tblNotes' = tblNotes]_vars

\* update_note_title has succeeded on one of two notes: the addressed row
\* carries the new title and the other row still has its own.
C18_Witness ==
    \E r \in Reqs :
        /\ op[r] = "update_note_title"
        /\ pc[r] = "done"
        /\ outcome[r].at = "ut_execute"
        /\ result[r] = Ok
        /\ \E n, m \in tblNotes :
             /\ n.note_id = arg[r].note_id
             /\ n.title = arg[r].title
             /\ m.note_id # n.note_id
             /\ m.title # n.title

\* No handler is between two awaits.
Quiescent == \A r \in Reqs : pc[r] \in {"idle", "done"}

\* The file add_note wrote for the row: the file name of its url under the
\* configured directory.
BlobOf(n) == NoteFilePath(static_file_directory, n.url.file)

\* A row whose file is missing, and a file no row owns.
RowWithoutBlob(n) == n \in tblNotes /\ fs[BlobOf(n)] = NoFile
BlobWithoutRow(p) == fs[p] # NoFile /\ \A n \in tblNotes : BlobOf(n) # p

Consistent ==
    /\ \A n \in tblNotes : ~RowWithoutBlob(n)
    /\ \A p \in Paths : ~BlobWithoutRow(p)

\* Every mismatch between rows and files is the work of a handler that is
\* still between its file step and its database step.
Settled ==
    /\ \A n \in tblNotes : RowWithoutBlob(n) => MidOperation(n.note_id)
    /\ \A p \in Paths :
         BlobWithoutRow(p)
         => \E r \in Reqs :
              /\ pc[r] = "add_insert"
              /\ NoteFilePath(static_file_directory, loc[r].file_name) = p

\* The steps that can leave an orphan behind: the failed INSERT of add_note,
\* the failed write of an update, the failed DELETE of remove_note.
OrphaningStep ==
    \E r \in Reqs :
        /\ \/ Finishes(r, "add_insert")
           \/ Finishes(r, "uc_persist")
           \/ Finishes(r, "ut_persist")
           \/ Finishes(r, "rm_execute")
        /\ result'[r].status = "InternalError"

\* C19: as long as no database or disk call has failed, every quiescent
\* state reached by interleaved add_note, update_note_content,
\* update_note_title and remove_note requests has a file for each row and a
\* row for each file; and the only steps that leave a row without file or a
\* file without row behind are a failed INSERT, a failed write of an update
\* and a failed DELETE.
C19_QuiescentConsistent ==
    /\ [](Quiescent /\ nfaults = 0 => Consistent)
    /\ [][Settled /\ ~Settled' => OrphaningStep]_vars

\* A remove_note and an update_note_content of the same note have interleaved
\* without any failure: the delete won, the update found the file gone.
C19_Witness ==
    /\ Quiescent
    /\ nfaults = 0
    /\ \E d, u \in Reqs :
         /\ op[d] = "remove_note" /\ pc[d] = "done" /\ result[d] = Ok
         /\ op[u] = "update_note_content" /\ pc[u] = "done"
         /\ arg[u].note_id = arg[d].note_id
         /\ outcome[u].at = "uc_remove"

\* The remove_note calls that have returned success.
DeletesOk ==
    {r \in Reqs : op[r] = "remove_note" /\ pc[r] = "done" /\ result[r].status = "Ok"}

\* C20: of the remove_note calls running against one note_id, interleaved
\* with updates of that note, at most one returns success; every other one
\* that has returned, returned not-found or internal-error.
C20_OneDeleteWins ==
    /\ Cardinality(DeletesOk) <= 1
    /\ \A r \in Reqs \ DeletesOk :
         op[r] = "remove_note" /\ pc[r] = "done"
         => result[r].status \in {"NotFound", "InternalError"}

\* Two remove_note calls have raced without any failure of the database or
\* the disk: both found the row, one removed the file and the row, the other
\* found the file gone.
C20_Witness ==
    \E w, l \in Reqs :
         /\ w \in DeletesOk
         /\ outcome[l].kind = "none"
         /\ op[l] = "remove_note" /\ pc[l] = "done"
         /\ outcome[l].at = "rm_remove"
         /\ result[l] = InternalError("Unable to delete static file")

====
